---- MODULE Spec2Model ----
(***************************************************************************)
(* house_prediction/house_price.py: find_csv_path and the straight-line    *)
(* pipeline of main (resolve path, load, feature/target split, train/test  *)
(* partition, fit, predict, evaluate, plot).                               *)
(*                                                                         *)
(* Numbers of the dataset are integers; fitted coefficients, predictions   *)
(* and the metric are exact rationals kept as numerator/denominator.       *)
(***************************************************************************)
EXTENDS Integers, Sequences, FiniteSets, TLC

VARIABLES
    argv,        \* sys.argv: <<program>> or <<program, argument>>
    script_dir,  \* Path(__file__).resolve().parent
    cwd,         \* Path.cwd()
    fs,          \* the filesystem: path -> "absent" | "file" | "dir"
    content,     \* the rows written in the dataset file(s)
    entropy,     \* operating-system entropy an unseeded generator would read
    pc,          \* the statement of main the run is at
    ran,         \* the stages that have executed, in order
    csv_path,    \* main: csv_path
    error,       \* the uncaught exception, if any
    data,        \* main: data
    X, y,        \* main: X, y
    X_train, X_test, y_train, y_test,
    model,       \* main: model (coefficients and intercept, once fitted)
    y_pred,      \* main: y_pred
    mse,         \* main: mse
    stdout,      \* what print() has written
    figure,      \* what the plot shows once plt.show() has run
    second,      \* TRUE in the second invocation of the program
    prev         \* partition, model and metric of the first invocation

envVars == <<argv, script_dir, cwd, fs, content, entropy>>
runVars == <<pc, ran, csv_path, error, data, X, y, X_train, X_test, y_train,
             y_test, model, y_pred, mse, stdout, figure>>
vars == <<envVars, runVars, second, prev>>

----------------------------------------------------------------------------
(* Bounds of the model *)

MaxRows == 3
RampRows == 12
MaxVec == 3

Values == {0, 1}
ColCounts == {1, 2, 3}
Dirs == {"app", "work"}
Names == {"housing.csv", "data.csv"}
Kinds == {"absent", "file", "dir"}

----------------------------------------------------------------------------
(* Generic helpers *)

Range(s) == {s[i] : i \in 1..Len(s)}

RECURSIVE SumSeq(_)
SumSeq(s) == IF s = <<>> THEN 0 ELSE s[1] + SumSeq(Tail(s))

Abs(a) == IF a < 0 THEN -a ELSE a

----------------------------------------------------------------------------
(* Paths and command-line arguments *)

Paths == Dirs \X Names

ProgArg == [kind |-> "prog", dir |-> "", name |-> "house_price.py"]
NoArg == [kind |-> "none", dir |-> "", name |-> ""]
EmptyArg == [kind |-> "empty", dir |-> "", name |-> ""]
AbsArgs == {[kind |-> "abs", dir |-> d, name |-> n] : d \in Dirs, n \in Names}
RelArgs == {[kind |-> "rel", dir |-> "", name |-> n] : n \in Names}
StrArgs == {EmptyArg} \cup AbsArgs \cup RelArgs
Argvs == {<<ProgArg>>} \cup {<<ProgArg, a>> : a \in StrArgs}

NoPath == <<"", "">>
NoMessage == [locations |-> <<>>, usage |-> FALSE]
NoError == [stage |-> "", kind |-> "", message |-> NoMessage]

exists(p) == fs[p] # "absent"

\* `if arg_path:` -- None and the empty string are false
Truthy(arg_path) == arg_path.kind \in {"abs", "rel"}

\* p = Path(arg_path); a relative p becomes (Path.cwd() / arg_path).resolve()
ResolveArg(arg_path) ==
    IF arg_path.kind = "abs" THEN <<arg_path.dir, arg_path.name>>
    ELSE <<cwd, arg_path.name>>

candidatesSwapped == << <<cwd, "housing.csv">>, <<script_dir, "housing.csv">> >>

candidates == << <<script_dir, "housing.csv">>, <<cwd, "housing.csv">> >>

NotFoundMessageWithArg(arg_path) ==
    [locations |-> IF Truthy(arg_path)
                   THEN <<ResolveArg(arg_path)>> \o candidates ELSE candidates,
     usage |-> TRUE]

\* the FileNotFoundError text: "next to the script", "current working
\* directory", then the example invocation
NotFoundMessage(arg_path) ==
    [locations |-> <<candidates[1], candidates[2]>>, usage |-> TRUE]

\* for c in candidates: if c.exists(): return c
FirstExisting(cs) ==
    IF \E i \in 1..Len(cs) : exists(cs[i])
    THEN cs[CHOOSE i \in 1..Len(cs) :
                exists(cs[i]) /\ \A j \in 1..(i - 1) : ~exists(cs[j])]
    ELSE NoPath

ArgFoundFallbackFirst(arg_path) ==
    /\ Truthy(arg_path)
    /\ exists(ResolveArg(arg_path))
    /\ FirstExisting(candidates) = NoPath

\* `if arg_path:` ... `if p.exists(): return p`
ArgFound(arg_path) == Truthy(arg_path) /\ exists(ResolveArg(arg_path))

find_csv_path_first_only(arg_path) ==
    IF ArgFound(arg_path)
    THEN [ok |-> TRUE, path |-> ResolveArg(arg_path), message |-> NoMessage]
    ELSE IF exists(candidates[1])
    THEN [ok |-> TRUE, path |-> candidates[1], message |-> NoMessage]
    ELSE [ok |-> FALSE, path |-> NoPath, message |-> NotFoundMessage(arg_path)]

find_csv_path(arg_path) ==
    IF ArgFound(arg_path)
    THEN [ok |-> TRUE, path |-> ResolveArg(arg_path), message |-> NoMessage]
    ELSE IF FirstExisting(candidates) # NoPath
    THEN [ok |-> TRUE, path |-> FirstExisting(candidates), message |-> NoMessage]
    ELSE [ok |-> FALSE, path |-> NoPath, message |-> NotFoundMessage(arg_path)]

\* the paths whose existence a call of find_csv_path tests
Probed(arg_path) ==
    (IF Truthy(arg_path) THEN {ResolveArg(arg_path)} ELSE {})
    \cup (IF ArgFound(arg_path) THEN {}
          ELSE IF exists(candidates[1]) THEN {candidates[1]}
          ELSE {candidates[1], candidates[2]})

\* arg = sys.argv[1] if len(sys.argv) > 1 else None
arg == IF Len(argv) > 1 THEN argv[2] ELSE NoArg

----------------------------------------------------------------------------
(* Tables (pandas DataFrame, Series) *)

NoFrame == [index |-> <<>>, rows |-> <<>>]
NoSeries == [index |-> <<>>, vals |-> <<>>]

nrows(t) == Len(t.index)
ncols(frame) == IF frame.rows = <<>> THEN 0 ELSE Len(frame.rows[1])
shape(frame) == <<nrows(frame), ncols(frame)>>

\* pd.read_csv(csv_path, delim_whitespace=True, header=None) accepts the
\* file: it is a regular file, it is not empty and no line has more fields
\* than the first (lines with fewer, which the parser pads, are not drawn)
Parseable(path, text) ==
    /\ path \in DOMAIN fs
    /\ fs[path] = "file"
    /\ text # <<>>
    /\ \A i \in 1..Len(text) : Len(text[i]) <= Len(text[1])

\* the frame read_csv builds: rows in file order under a RangeIndex 0..n-1
read_csv(text) ==
    [index |-> [i \in 1..Len(text) |-> i - 1], rows |-> text]

head(frame) ==
    [index |-> SubSeq(frame.index, 1, IF nrows(frame) < 5 THEN nrows(frame) ELSE 5),
     rows |-> SubSeq(frame.rows, 1, IF nrows(frame) < 5 THEN nrows(frame) ELSE 5)]

FeaturesDropFirst(frame) ==
    [index |-> frame.index,
     rows |-> [i \in 1..nrows(frame) |-> Tail(frame.rows[i])]]

\* X = data.iloc[:, :-1]
Features(frame) ==
    [index |-> frame.index,
     rows |-> [i \in 1..nrows(frame) |->
                  SubSeq(frame.rows[i], 1, Len(frame.rows[i]) - 1)]]

\* y = data.iloc[:, -1]
Target(frame) ==
    [index |-> frame.index,
     vals |-> [i \in 1..nrows(frame) |-> frame.rows[i][Len(frame.rows[i])]]]

\* positional row selection (iloc) of a frame and of a series
TakeRows(frame, pos) ==
    [index |-> [k \in 1..Len(pos) |-> frame.index[pos[k] + 1]],
     rows |-> [k \in 1..Len(pos) |-> frame.rows[pos[k] + 1]]]

TakeVals(series, pos) ==
    [index |-> [k \in 1..Len(pos) |-> series.index[pos[k] + 1]],
     vals |-> [k \in 1..Len(pos) |-> series.vals[pos[k] + 1]]]

----------------------------------------------------------------------------
(* train_test_split(X, y, test_size=0.2, random_state=42) *)

\* test_size = 0.2 = TestSizeNum / TestSizeDen
TestSizeNum == 1
TestSizeDen == 5

random_state_unseeded == entropy

random_state == 42

\* The four low bits of the first outputs of the Mersenne Twister after
\* init_genrand(seed); the shuffle of at most 16 rows reads nothing else.
MTLowBits(seed) ==
    IF seed = 42
    THEN <<6, 3, 12, 14, 10, 7, 12, 4, 6, 9, 2, 6, 10, 10, 7, 4,
           3, 7, 7, 2, 5, 4, 1, 7, 11, 13, 5, 1, 15, 11, 4, 0>>
    ELSE IF seed = 0
    THEN <<12, 15, 5, 0, 3, 11, 3, 7, 9, 3, 5, 2, 4, 7, 6, 8,
           8, 12, 10, 1, 6, 7, 7, 14, 8, 1, 5, 9, 13, 8, 9, 4>>
    ELSE <<5, 11, 12, 8, 15, 9, 11, 5, 15, 0, 0, 1, 12, 7, 13, 12,
           6, 9, 2, 4, 14, 5, 2, 4, 11, 12, 10, 12, 13, 14, 2, 4>>

\* the smallest 2^k - 1 that is >= max
RECURSIVE MaskFrom(_, _)
MaskFrom(max, m) == IF m >= max THEN m ELSE MaskFrom(max, 2 * m + 1)
Mask(max) == MaskFrom(max, 0)

\* random_interval: draw, mask, reject values above max
RECURSIVE random_interval(_, _, _)
random_interval(stream, at, max) ==
    IF stream[at] % (Mask(max) + 1) <= max
    THEN [value |-> stream[at] % (Mask(max) + 1), next |-> at + 1]
    ELSE random_interval(stream, at + 1, max)

Swap(x, i, j) == [x EXCEPT ![i] = x[j], ![j] = x[i]]

\* shuffle: for i in reversed(range(1, n)): j = random_interval(i); swap
RECURSIVE ShuffleFrom(_, _, _, _)
ShuffleFrom(x, i, stream, at) ==
    IF i < 1 THEN x
    ELSE LET d == random_interval(stream, at, i)
         IN  ShuffleFrom(Swap(x, i + 1, d.value + 1), i - 1, stream, d.next)

\* RandomState(seed).permutation(n): positions 0..n-1, shuffled
permutation(seed, n) ==
    ShuffleFrom([i \in 1..n |-> i - 1], n - 1, MTLowBits(seed), 1)

CeilDiv(a, b) == (a + b - 1) \div b
FloorDiv(a, b) == a \div b

\* round(): to the nearest integer, a tie to the even one
RoundDiv(a, b) ==
    LET q == a \div b
        r == a % b
    IN  IF 2 * r > b THEN q + 1
        ELSE IF 2 * r < b THEN q
        ELSE IF q % 2 = 0 THEN q ELSE q + 1

n_test_floor(n_samples) == FloorDiv(TestSizeNum * n_samples, TestSizeDen)

\* n_test = ceil(test_size * n_samples)
n_test(n_samples) == CeilDiv(TestSizeNum * n_samples, TestSizeDen)

\* n_train = n_samples - n_test
n_train(n_samples) == n_samples - n_test(n_samples)

\* the split is refused when the train set would be empty
SplitOk(n_samples) == n_train(n_samples) >= 1

test_positions(n_samples) ==
    SubSeq(permutation(random_state, n_samples), 1, n_test(n_samples))

train_positions_overlap(n_samples) ==
    SubSeq(permutation(random_state, n_samples), n_test(n_samples),
           n_test(n_samples) + n_train(n_samples) - 1)

\* ind_train = permutation[n_test:(n_test + n_train)]
train_positions(n_samples) ==
    SubSeq(permutation(random_state, n_samples), n_test(n_samples) + 1,
           n_test(n_samples) + n_train(n_samples))

----------------------------------------------------------------------------
(* LinearRegression().fit, model.predict, mean_squared_error *)

RECURSIVE GCD(_, _)
GCD(a, b) == IF b = 0 THEN Abs(a) ELSE GCD(Abs(b), Abs(a) % Abs(b))

RECURSIVE GCDSeq(_)
GCDSeq(s) == IF s = <<>> THEN 0 ELSE GCD(s[1], GCDSeq(Tail(s)))

NoModel == [coef |-> <<>>, intercept |-> 0, den |-> 0]
NoPred == [index |-> <<>>, num |-> <<>>, den |-> 0]
NoMetric == [num |-> 0, den |-> 0]

\* a model with numerators and denominator in lowest terms
Reduced(coef, intercept, den) ==
    LET g == GCD(GCDSeq(coef), GCD(intercept, den))
    IN  [coef |-> [j \in 1..Len(coef) |-> coef[j] \div g],
         intercept |-> intercept \div g,
         den |-> den \div g]

\* fit refuses a feature matrix with no column
FitOk(Xtr) == ncols(Xtr) >= 1

\* Ordinary least squares with an intercept: the columns and the target are
\* centred, the centred system is solved for its minimum-norm least-squares
\* solution beta = pinv(Xc'Xc) Xc'yc, and intercept = mean(y) - mean(X).beta.
\* Everything is scaled by n so that it stays in the integers:
\*   cx(i,j) = n*x(i,j) - sum_i x(i,j)      cy(i) = n*y(i) - sum_i y(i)
\*   S(j,k)  = sum_i cx(i,j)*cx(i,k)        T(j)  = sum_i cx(i,j)*cy(i)
fit(Xtr, ytr) ==
    LET n == nrows(Xtr)
        p == ncols(Xtr)
        sx(j) == SumSeq([i \in 1..n |-> Xtr.rows[i][j]])
        sy == SumSeq(ytr.vals)
        cx(i, j) == n * Xtr.rows[i][j] - sx(j)
        cy(i) == n * ytr.vals[i] - sy
        S(j, k) == SumSeq([i \in 1..n |-> cx(i, j) * cx(i, k)])
        T(j) == SumSeq([i \in 1..n |-> cx(i, j) * cy(i)])
        det == S(1, 1) * S(2, 2) - S(1, 2) * S(1, 2)
        tr == S(1, 1) + S(2, 2)
        \* beta = num / d
        beta ==
            IF p = 1
            THEN IF S(1, 1) = 0 THEN [num |-> <<0>>, d |-> 1]
                 ELSE [num |-> <<T(1)>>, d |-> S(1, 1)]
            ELSE IF det # 0
            THEN [num |-> <<S(2, 2) * T(1) - S(1, 2) * T(2),
                            S(1, 1) * T(2) - S(1, 2) * T(1)>>,
                  d |-> det]
            ELSE IF tr = 0 THEN [num |-> <<0, 0>>, d |-> 1]
            ELSE [num |-> <<S(1, 1) * T(1) + S(1, 2) * T(2),
                            S(1, 2) * T(1) + S(2, 2) * T(2)>>,
                  d |-> tr * tr]
        g == GCD(GCDSeq(beta.num), beta.d)
        num == [j \in 1..p |-> beta.num[j] \div g]
        d == beta.d \div g
    IN  Reduced([j \in 1..p |-> n * num[j]],
                sy * d - SumSeq([j \in 1..p |-> sx(j) * num[j]]),
                n * d)

\* y_pred = intercept + X_test . coef, one value per test row, in row order
predict(m, Xte) ==
    [index |-> Xte.index,
     num |-> [i \in 1..nrows(Xte) |->
                 m.intercept
                 + SumSeq([j \in 1..Len(m.coef) |-> m.coef[j] * Xte.rows[i][j]])],
     den |-> m.den]

ReducedFraction(num, den) ==
    [num |-> num \div GCD(num, den), den |-> den \div GCD(num, den)]

mean_signed_error(ytrue, pred) ==
    ReducedFraction(
        SumSeq([i \in 1..Len(ytrue.vals) |-> pred.num[i] - pred.den * ytrue.vals[i]]),
        pred.den * Len(ytrue.vals))

\* average over i of (y_true[i] - y_pred[i])^2
mean_squared_error(ytrue, pred) ==
    ReducedFraction(
        SumSeq([i \in 1..Len(ytrue.vals) |->
                   (pred.den * ytrue.vals[i] - pred.num[i])
                   * (pred.den * ytrue.vals[i] - pred.num[i])]),
        pred.den * pred.den * Len(ytrue.vals))

\* f"{mse:.2f}": the value in hundredths, rounded to nearest, a tie to even
Format2f(m) == RoundDiv(100 * m.num, m.den)

RECURSIVE MinSeq(_)
MinSeq(s) ==
    IF Len(s) = 1 THEN s[1]
    ELSE IF s[1] <= MinSeq(Tail(s)) THEN s[1] ELSE MinSeq(Tail(s))

RECURSIVE MaxSeq(_)
MaxSeq(s) ==
    IF Len(s) = 1 THEN s[1]
    ELSE IF s[1] >= MaxSeq(Tail(s)) THEN s[1] ELSE MaxSeq(Tail(s))

NoFigure == [points |-> <<>>, line |-> <<>>, shown |-> FALSE]

\* plt.scatter(y_test, y_pred), the dashed line from (min, min) to (max, max)
scatter(ytrue, pred) ==
    [points |-> [i \in 1..Len(ytrue.vals) |-> <<ytrue.vals[i], pred.num[i], pred.den>>],
     line |-> <<MinSeq(ytrue.vals), MaxSeq(ytrue.vals)>>,
     shown |-> TRUE]

----------------------------------------------------------------------------
(* main: one action per stage *)

afterSkippingFit(stage) ==
    CASE stage = "resolve" -> "load"
      [] stage = "load" -> "split"
      [] stage = "split" -> "partition"
      [] stage = "partition" -> "predict"
      [] stage = "fit" -> "predict"
      [] stage = "predict" -> "evaluate"
      [] stage = "evaluate" -> "plot"
      [] OTHER -> "done"

\* the statement of main that follows a stage that returned
after(stage) ==
    CASE stage = "resolve" -> "load"
      [] stage = "load" -> "split"
      [] stage = "split" -> "partition"
      [] stage = "partition" -> "fit"
      [] stage = "fit" -> "predict"
      [] stage = "predict" -> "evaluate"
      [] stage = "evaluate" -> "plot"
      [] OTHER -> "done"

\* an exception nothing catches leaves main: the run ends where it was raised
Raise(stage, kind, message) ==
    /\ pc' = "failed"
    /\ error' = [stage |-> stage, kind |-> kind, message |-> message]

\* csv_path = find_csv_path(arg)
ResolvePath ==
    /\ pc = "resolve"
    /\ ran' = Append(ran, "resolve")
    /\ IF find_csv_path(arg).ok
       THEN /\ csv_path' = find_csv_path(arg).path
            /\ pc' = after("resolve")
            /\ UNCHANGED error
       ELSE /\ Raise("resolve", "FileNotFoundError", find_csv_path(arg).message)
            /\ UNCHANGED csv_path
    /\ UNCHANGED <<envVars, data, X, y, X_train, X_test, y_train, y_test, model,
                   y_pred, mse, stdout, figure, second, prev>>

\* data = pd.read_csv(...); print path, data.head(), data.shape
Load ==
    /\ pc = "load"
    /\ ran' = Append(ran, "load")
    /\ IF Parseable(csv_path, content)
       THEN /\ data' = read_csv(content)
            /\ stdout' = stdout \o << <<"Loaded data from", csv_path>>,
                                      <<"head", head(read_csv(content))>>,
                                      <<"Data shape", shape(read_csv(content))>> >>
            /\ pc' = after("load")
            /\ UNCHANGED error
       ELSE /\ Raise("load", "ParserError", NoMessage)
            /\ UNCHANGED <<data, stdout>>
    /\ UNCHANGED <<envVars, csv_path, X, y, X_train, X_test, y_train, y_test, model,
                   y_pred, mse, figure, second, prev>>

\* X = data.iloc[:, :-1]; y = data.iloc[:, -1]; print both shapes
SplitColumns ==
    /\ pc = "split"
    /\ ran' = Append(ran, "split")
    /\ X' = Features(data)
    /\ y' = Target(data)
    /\ stdout' = stdout \o << <<"X shape", shape(Features(data))>>,
                              <<"y shape", <<nrows(Target(data))>> >> >>
    /\ pc' = after("split")
    /\ UNCHANGED <<envVars, csv_path, error, data, X_train, X_test, y_train, y_test,
                   model, y_pred, mse, figure, second, prev>>

\* X_train, X_test, y_train, y_test = train_test_split(X, y, ...); print shapes
Partition ==
    /\ pc = "partition"
    /\ ran' = Append(ran, "partition")
    /\ IF SplitOk(nrows(X))
       THEN /\ X_train' = TakeRows(X, train_positions(nrows(X)))
            /\ X_test' = TakeRows(X, test_positions(nrows(X)))
            /\ y_train' = TakeVals(y, train_positions(nrows(X)))
            /\ y_test' = TakeVals(y, test_positions(nrows(X)))
            /\ stdout' = stdout \o
                   << <<"X_train shape", shape(TakeRows(X, train_positions(nrows(X))))>>,
                      <<"X_test shape", shape(TakeRows(X, test_positions(nrows(X))))>> >>
            /\ pc' = after("partition")
            /\ UNCHANGED error
       ELSE /\ Raise("partition", "ValueError", NoMessage)
            /\ UNCHANGED <<X_train, X_test, y_train, y_test, stdout>>
    /\ UNCHANGED <<envVars, csv_path, data, X, y, model, y_pred, mse, figure,
                   second, prev>>

\* model = LinearRegression(); model.fit(X_train, y_train)
Fit ==
    /\ pc = "fit"
    /\ ran' = Append(ran, "fit")
    /\ IF FitOk(X_train)
       THEN /\ model' = fit(X_train, y_train)
            /\ pc' = after("fit")
            /\ UNCHANGED error
       ELSE /\ Raise("fit", "ValueError", NoMessage)
            /\ UNCHANGED model
    /\ UNCHANGED <<envVars, csv_path, data, X, y, X_train, X_test, y_train, y_test,
                   y_pred, mse, stdout, figure, second, prev>>

\* y_pred = model.predict(X_test)
Predict ==
    /\ pc = "predict"
    /\ ran' = Append(ran, "predict")
    /\ y_pred' = predict(model, X_test)
    /\ pc' = after("predict")
    /\ UNCHANGED <<envVars, csv_path, error, data, X, y, X_train, X_test, y_train,
                   y_test, model, mse, stdout, figure, second, prev>>

\* mse = mean_squared_error(y_test, y_pred); print it to two decimals
Evaluate ==
    /\ pc = "evaluate"
    /\ ran' = Append(ran, "evaluate")
    /\ mse' = mean_squared_error(y_test, y_pred)
    /\ stdout' = Append(stdout, <<"Mean Squared Error",
                                  Format2f(mean_squared_error(y_test, y_pred))>>)
    /\ pc' = after("evaluate")
    /\ UNCHANGED <<envVars, csv_path, error, data, X, y, X_train, X_test, y_train,
                   y_test, model, y_pred, figure, second, prev>>

\* the scatter plot and plt.show(); main returns after it
Plot ==
    /\ pc = "plot"
    /\ ran' = Append(ran, "plot")
    /\ figure' = scatter(y_test, y_pred)
    /\ pc' = after("plot")
    /\ UNCHANGED <<envVars, csv_path, error, data, X, y, X_train, X_test, y_train,
                   y_test, model, y_pred, mse, stdout, second, prev>>

----------------------------------------------------------------------------
(* Initial states *)

Entropies == {0, 1}

\* every table of 1..MaxRows rows and a column count of ColCounts over Values
BinaryDatasets ==
    UNION {[1..r -> [1..c -> Values]] : r \in 1..MaxRows, c \in ColCounts}

\* n rows (x, 3x + 1)
Ramp(n) == [i \in 1..n |-> <<i, 3 * i + 1>>]
RampDatasets == {Ramp(n) : n \in 1..RampRows}

\* an empty file, and a file whose second line has a field too many
BadFiles == {<<>>, << <<0, 1>>, <<1, 0, 1>> >>}

Contents == BinaryDatasets \cup RampDatasets \cup BadFiles

FsWith(files, dirs) ==
    [p \in Paths |-> IF p \in files THEN "file"
                     ELSE IF p \in dirs THEN "dir" ELSE "absent"]

\* housing.csv in the working directory only, no argument
EnvCwdOnly ==
    [argv |-> <<ProgArg>>, script_dir |-> "app", cwd |-> "work",
     fs |-> FsWith({<<"work", "housing.csv">>}, {})]

\* a relative argument that exists, beside a housing.csv next to the program
EnvRelArg ==
    [argv |-> <<ProgArg, [kind |-> "rel", dir |-> "", name |-> "data.csv"]>>,
     script_dir |-> "app", cwd |-> "work",
     fs |-> FsWith({<<"work", "data.csv">>, <<"app", "housing.csv">>}, {})]

\* an absolute argument that does not exist, and no housing.csv anywhere
EnvNothing ==
    [argv |-> <<ProgArg, [kind |-> "abs", dir |-> "app", name |-> "data.csv"]>>,
     script_dir |-> "app", cwd |-> "work", fs |-> FsWith({}, {})]

\* housing.csv next to the program is a directory
EnvDirectory ==
    [argv |-> <<ProgArg>>, script_dir |-> "app", cwd |-> "app",
     fs |-> FsWith({}, {<<"app", "housing.csv">>})]

PipelineEnvs == {EnvCwdOnly, EnvRelArg, EnvNothing, EnvDirectory}

NoPrev ==
    [X_train |-> NoFrame, X_test |-> NoFrame, y_train |-> NoSeries,
     y_test |-> NoSeries, model |-> NoModel, mse |-> NoMetric]

InitRun ==
    /\ pc = "resolve"
    /\ ran = <<>>
    /\ csv_path = NoPath
    /\ error = NoError
    /\ data = NoFrame
    /\ X = NoFrame
    /\ y = NoSeries
    /\ X_train = NoFrame
    /\ X_test = NoFrame
    /\ y_train = NoSeries
    /\ y_test = NoSeries
    /\ model = NoModel
    /\ y_pred = NoPred
    /\ mse = NoMetric
    /\ stdout = <<>>
    /\ figure = NoFigure

\* the pipeline on every dataset, in a few environments
Init ==
    /\ \E e \in PipelineEnvs :
          /\ argv = e.argv
          /\ script_dir = e.script_dir
          /\ cwd = e.cwd
          /\ fs = e.fs
    /\ content \in Contents
    /\ entropy \in Entropies
    /\ InitRun
    /\ second = FALSE
    /\ prev = NoPrev

\* every command line and filesystem, one dataset
InitResolve ==
    /\ argv \in Argvs
    /\ script_dir \in Dirs
    /\ cwd \in Dirs
    /\ fs \in [Paths -> Kinds]
    /\ content = Ramp(5)
    /\ entropy = 0
    /\ InitRun
    /\ second = FALSE
    /\ prev = NoPrev

\* the first of two runs: housing.csv found in the working directory
InitRerun ==
    /\ argv = EnvCwdOnly.argv
    /\ script_dir = EnvCwdOnly.script_dir
    /\ cwd = EnvCwdOnly.cwd
    /\ fs = EnvCwdOnly.fs
    /\ content \in Contents
    /\ entropy = 0
    /\ InitRun
    /\ second = FALSE
    /\ prev = NoPrev

PredNums == {-1, 0, 1, 2}
PredDens == {1, 2}

\* the evaluator on every pair of vectors of 1..MaxVec values
InitEval ==
    /\ argv = EnvCwdOnly.argv
    /\ script_dir = EnvCwdOnly.script_dir
    /\ cwd = EnvCwdOnly.cwd
    /\ fs = EnvCwdOnly.fs
    /\ content = <<>>
    /\ entropy = 0
    /\ pc = "evaluate"
    /\ ran = <<"resolve", "load", "split", "partition", "fit", "predict">>
    /\ csv_path = <<"work", "housing.csv">>
    /\ error = NoError
    /\ data = NoFrame
    /\ X = NoFrame
    /\ y = NoSeries
    /\ X_train = NoFrame
    /\ X_test = NoFrame
    /\ y_train = NoSeries
    /\ model = NoModel
    /\ \E n \in 1..MaxVec :
          /\ y_test \in [index : {[i \in 1..n |-> i - 1]}, vals : [1..n -> Values]]
          /\ y_pred \in [index : {[i \in 1..n |-> i - 1]}, num : [1..n -> PredNums],
                         den : PredDens]
    /\ mse = NoMetric
    /\ stdout = <<>>
    /\ figure = NoFigure
    /\ second = FALSE
    /\ prev = NoPrev

\* the program is started again on the same dataset: another command line,
\* another filesystem and working directory, other entropy
Rerun ==
    /\ pc = "done"
    /\ ~second
    /\ second' = TRUE
    /\ prev' = [X_train |-> X_train, X_test |-> X_test, y_train |-> y_train,
                y_test |-> y_test, model |-> model, mse |-> mse]
    /\ \E e \in PipelineEnvs :
          /\ argv' = e.argv
          /\ script_dir' = e.script_dir
          /\ cwd' = e.cwd
          /\ fs' = e.fs
    /\ entropy' \in Entropies
    /\ UNCHANGED content
    /\ pc' = "resolve"
    /\ ran' = <<>>
    /\ csv_path' = NoPath
    /\ error' = NoError
    /\ data' = NoFrame
    /\ X' = NoFrame
    /\ y' = NoSeries
    /\ X_train' = NoFrame
    /\ X_test' = NoFrame
    /\ y_train' = NoSeries
    /\ y_test' = NoSeries
    /\ model' = NoModel
    /\ y_pred' = NoPred
    /\ mse' = NoMetric
    /\ stdout' = <<>>
    /\ figure' = NoFigure

Next ==
    \/ ResolvePath
    \/ Load
    \/ SplitColumns
    \/ Partition
    \/ Fit
    \/ Predict
    \/ Evaluate
    \/ Plot

NextEval == Evaluate \/ Plot

NextRerun == Next \/ Rerun

Spec == Init /\ [][Next]_vars
SpecResolve == InitResolve /\ [][Next]_vars
SpecEval == InitEval /\ [][NextEval]_vars
SpecRerun == InitRerun /\ [][NextRerun]_vars

----------------------------------------------------------------------------
(* Properties of find_csv_path (checked under SpecResolve) *)

Resolved == "resolve" \in Range(ran)
ResolveFailed == error.stage = "resolve"
NextToScript == <<script_dir, "housing.csv">>
InCwd == <<cwd, "housing.csv">>
Supplied == ResolveArg(arg)
SuppliedExists == Truthy(arg) /\ fs[Supplied] # "absent"

\* C1: a supplied, non-empty candidate that (resolved against the working
\* directory when relative) is an existing file is what the resolver returns,
\* whatever housing.csv files exist next to the program or in the working
\* directory.
C1_SuppliedFileIsReturned ==
    (Resolved /\ Truthy(arg) /\ fs[Supplied] = "file")
        => (~ResolveFailed /\ csv_path = Supplied)

C1_Witness ==
    /\ Resolved
    /\ Truthy(arg)
    /\ fs[Supplied] = "file"
    /\ script_dir # cwd
    /\ fs[NextToScript] = "file"
    /\ fs[InCwd] = "file"
    /\ Supplied \notin {NextToScript, InCwd}
    /\ csv_path = Supplied

\* C2: with no candidate, or a candidate that does not exist, housing.csv
\* next to the program is returned if it exists, and otherwise housing.csv
\* in the working directory if that exists.
C2_FallbackOrder ==
    (Resolved /\ ~SuppliedExists)
        => /\ fs[NextToScript] # "absent"
                => (~ResolveFailed /\ csv_path = NextToScript)
           /\ (fs[NextToScript] = "absent" /\ fs[InCwd] # "absent")
                => (~ResolveFailed /\ csv_path = InCwd)

C2_Witness ==
    /\ Resolved
    /\ arg = NoArg
    /\ script_dir # cwd
    /\ fs[NextToScript] = "absent"
    /\ fs[InCwd] = "file"
    /\ csv_path = InCwd

\* C3: the resolver fails exactly when the supplied candidate (if any) does
\* not exist and neither fallback housing.csv exists; the error then lists
\* exactly the two fallback locations, program directory first, and the
\* usage hint.
C3_FailsExactlyWhenNothingExists ==
    Resolved
        => /\ ResolveFailed
                <=> (~SuppliedExists /\ fs[NextToScript] = "absent"
                     /\ fs[InCwd] = "absent")
           /\ ResolveFailed
                => /\ pc = "failed"
                   /\ error.kind = "FileNotFoundError"
                   /\ error.message.locations = <<NextToScript, InCwd>>
                   /\ error.message.usage

C3_Witness ==
    /\ ResolveFailed
    /\ arg.kind = "abs"
    /\ fs[Supplied] = "absent"
    /\ Len(error.message.locations) = 2

\* C4 as claimed: the error of a failed resolution lists every path whose
\* existence was tested, the supplied candidate included.
C4_ListsEveryProbedLocation ==
    ResolveFailed
        => /\ \A p \in Probed(arg) : p \in Range(error.message.locations)
           /\ error.message.usage

\* C4 as amended: the error of a failed resolution lists the two fallback
\* locations and the example invocation; a tested path it does not list can
\* only be the supplied candidate.
C4_ListsFallbackLocations ==
    ResolveFailed
        => /\ Range(error.message.locations) = {NextToScript, InCwd}
           /\ error.message.usage
           /\ \A p \in Probed(arg) \ Range(error.message.locations) :
                 Truthy(arg) /\ p = Supplied

C4_Witness ==
    /\ ResolveFailed
    /\ Truthy(arg)
    /\ Supplied \in Probed(arg)
    /\ Supplied \notin Range(error.message.locations)

----------------------------------------------------------------------------
(* Properties of the pipeline (checked under Spec) *)

ColumnsSplit == "split" \in Range(ran)
Partitioned == "partition" \in Range(ran) /\ error.stage # "partition"

\* C8: y is the last column of the loaded dataset and X its other columns in
\* their order: X has r rows and c - 1 columns, y has r values, and X[i] and
\* y[i] are taken from dataset row i.
C8_FeatureTargetSplit ==
    ColumnsSplit
        => /\ data.rows = content
           /\ shape(X) = <<nrows(data), ncols(data) - 1>>
           /\ Len(y.vals) = nrows(data)
           /\ X.index = data.index
           /\ y.index = data.index
           /\ \A i \in 1..nrows(data) :
                 /\ y.vals[i] = data.rows[i][ncols(data)]
                 /\ Len(X.rows[i]) = ncols(data) - 1
                 /\ \A j \in 1..(ncols(data) - 1) : X.rows[i][j] = data.rows[i][j]

C8_Witness ==
    /\ ColumnsSplit
    /\ shape(data) = <<3, 3>>
    /\ data.rows[1] = <<0, 1, 1>>
    /\ data.rows[2] = <<1, 0, 0>>
    /\ X.rows[1] = <<0, 1>>
    /\ y.vals[2] = 0

\* C5: after a successful split every row index of the dataset is in exactly
\* one of the train and test groups, the two group sizes add up to n,
\* X_train/y_train hold the same row indices as each other, as do
\* X_test/y_test, and every group row carries the values of its dataset row.
C5_PartitionDisjointExhaustive ==
    Partitioned
        => /\ Range(X_train.index) \cap Range(X_test.index) = {}
           /\ Range(X_train.index) \cup Range(X_test.index) = Range(X.index)
           /\ nrows(X_train) + nrows(X_test) = nrows(X)
           /\ Cardinality(Range(X_train.index)) = nrows(X_train)
           /\ Cardinality(Range(X_test.index)) = nrows(X_test)
           /\ y_train.index = X_train.index
           /\ y_test.index = X_test.index
           /\ \A k \in 1..nrows(X_train) :
                 /\ X_train.rows[k] = X.rows[X_train.index[k] + 1]
                 /\ y_train.vals[k] = y.vals[X_train.index[k] + 1]
           /\ \A k \in 1..nrows(X_test) :
                 /\ X_test.rows[k] = X.rows[X_test.index[k] + 1]
                 /\ y_test.vals[k] = y.vals[X_test.index[k] + 1]

C5_Witness ==
    /\ Partitioned
    /\ nrows(X) = 10
    /\ X_test.index = <<8, 1>>
    /\ X_train.index = <<5, 0, 7, 2, 9, 4, 3, 6>>

\* C6 as claimed: after a successful split of n rows the test group has
\* round(0.2 * n) rows and the train group the other n - round(0.2 * n).
C6_TestSizeIsRounded ==
    Partitioned
        => /\ nrows(X_test) = RoundDiv(nrows(X), 5)
           /\ nrows(X_train) = nrows(X) - RoundDiv(nrows(X), 5)

\* C6 as amended: after a successful split of n rows the test group has
\* ceil(0.2 * n) rows, the least t with 5 * t >= n, and the train group the
\* other n - t; 500 rows give 100 test rows and 400 training rows.
C6_TestSizeIsCeiling ==
    /\ Partitioned
        => /\ 5 * nrows(X_test) >= nrows(X)
           /\ 5 * (nrows(X_test) - 1) < nrows(X)
           /\ nrows(X_train) = nrows(X) - nrows(X_test)
           /\ nrows(y_test) = nrows(X_test)
           /\ nrows(y_train) = nrows(X_train)
    /\ n_test(500) = 100
    /\ n_train(500) = 400

C6_Witness ==
    /\ Partitioned
    /\ nrows(X) = 6
    /\ nrows(X_test) = 2
    /\ nrows(X_train) = 4
    /\ RoundDiv(nrows(X), 5) = 1

ClaimedOrder ==
    <<"resolve", "load", "split", "partition", "fit", "predict", "evaluate", "plot">>

IsPrefix(s, t) == Len(s) <= Len(t) /\ s = SubSeq(t, 1, Len(s))

Printed(label) == \E i \in 1..Len(stdout) : stdout[i][1] = label

C10_Stages ==
    /\ IsPrefix(ran, ClaimedOrder)
    /\ (pc = "failed") <=> (error # NoError)
    /\ pc = "failed" => (ran # <<>> /\ error.stage = ran[Len(ran)])
    /\ (pc = "done") <=> (ran = ClaimedOrder)
    /\ pc = "done" => figure.shown
    /\ pc \notin {"failed", "done"} => pc = ClaimedOrder[Len(ran) + 1]
    /\ figure.shown => "plot" \in Range(ran)
    /\ Printed("Mean Squared Error") => "evaluate" \in Range(ran)
    /\ error.stage = "resolve"
          => (data = NoFrame /\ ~Printed("Mean Squared Error") /\ ~figure.shown)

C10_Step ==
    /\ ran' = ran \/ ran' = Append(ran, pc)
    /\ pc \in {"failed", "done"} => UNCHANGED runVars

\* C10: the stages run at most once each and only in the order resolve,
\* load, split, partition, fit, predict, evaluate, plot; a stage starts only
\* when every earlier one succeeded; a failed stage ends the run in the
\* failed state, nothing runs after it and nothing is retried (after a
\* failed resolution nothing is loaded, no metric is printed, no plot is
\* shown); the run is done only once the plot stage has completed.
C10_RunOrder == [](C10_Stages) /\ [][C10_Step]_vars

C10_Witness ==
    /\ pc = "failed"
    /\ error.stage = "fit"
    /\ ran = <<"resolve", "load", "split", "partition", "fit">>
    /\ ~Printed("Mean Squared Error")

----------------------------------------------------------------------------
(* Determinism (checked under SpecRerun) *)

----------------------------------------------------------------------------
(* The evaluator (checked under SpecEval) *)

Evaluated == "evaluate" \in Range(ran)

\* C9: the mean squared error of equal-length, non-empty vectors is >= 0,
\* and it is 0 only when every prediction equals its actual value.
C9_MetricNonNegative ==
    Evaluated
        => /\ mse.den > 0
           /\ mse.num >= 0
           /\ mse.num = 0
                => \A i \in 1..Len(y_test.vals) :
                      y_pred.num[i] = y_pred.den * y_test.vals[i]

C9_Witness ==
    /\ Evaluated
    /\ Len(y_test.vals) = 2
    /\ y_pred.den = 2
    /\ y_test.vals = <<1, 0>>
    /\ y_pred.num = <<2, 0>>
    /\ mse.num = 0

====
